---- MODULE Spec2Model ----
(***************************************************************************)
(* Salesforce -> PostgreSQL incremental sync (DevOps-Sync-Script).         *)
(*                                                                         *)
(* The model follows src/sync: lambda_function.lambda_handler dispatches   *)
(* to DataSyncer.sync / DataSyncer.sync_multiple, which drive the          *)
(* generator SalesforceAccessor.query_batch and apply each yielded batch   *)
(* through PostgresAccessor.upsert_batch / delete_by_keys, then persist    *)
(* the watermark through PostgresAccessor.update_watermark.                *)
(*                                                                         *)
(* Time is a counter of ticks.  datetime.utcnow() reads the counter and    *)
(* time then moves on, so every later event carries a later stamp; a       *)
(* source modification stamps the record with the current tick.            *)
(*                                                                         *)
(* The database connection is in psycopg2's default transactional mode: a  *)
(* statement that fails aborts the open transaction, and the database      *)
(* refuses every statement of the connection until a rollback.             *)
(***************************************************************************)
EXTENDS Integers, Sequences, FiniteSets, TLC

\* ---------------------------------------------------------------- bounds
MaxRecs == 3          \* record ids the source object can hold
BatchSize == 2        \* SyncConfig.batch_size of the run (2000 scaled down)
ServerPageSize == 2   \* most records the source API puts in a page (scaled down)
MaxRuns == 2          \* invocations of lambda_handler in one behaviour
MaxEnv == 1           \* failing I/O calls and concurrent source
                      \* modifications in one behaviour
MaxBatchLen == 3      \* records in the batch of a followed accessor call
ValuesPageSize == 2   \* page_size of execute_values (100 scaled down)

\* Target tables named by the events: t1 and t2 are in the database, t0 is not.
Tables == {"t0", "t1", "t2"}
RecIds == 1..MaxRecs
Outcomes == {"ok", "fail", "raise"}

VARIABLES
    clock,       \* current tick
    source,      \* records of the source object: [id, lm, del], one per id
    exists,      \* target tables present in the database
    target,      \* target[t]: rows of table t, [id, lm], one per key
    watermark,   \* watermark[t]: {} (no row) or {last_synced_time}
    runs,        \* invocations started
    env,         \* failed I/O calls and source modifications so far
    pc,          \* position of lambda_handler / sync / query_batch
    access_token, \* SalesforceAccessor.access_token is set
    conn,        \* PostgresAccessor.conn and cursor: "none", "open" or "closed"
    aborted,     \* the transaction of conn is aborted: a statement failed
                 \* and no rollback was issued since
    event,       \* sync_configs of the invocation: sequence of table names
    idx,         \* index in event of the table being synced
    results,     \* results list built by the invocation
    response,    \* body returned by the last invocation
    wm,          \* sync: local watermark ({} is None)
    start,       \* sync: local sync_start_time
    query,       \* sync: rewritten query [filter, limit]
    stats,       \* DataSyncer.stats
    initial,     \* sync: initial_count
    snap,        \* query_batch: pages the server still holds for the cursor
    batch,       \* the batch last yielded by query_batch
    cur,         \* history: table of the sync in progress or last ended
    ended,       \* history: "no" while a sync runs, else how the last one ended
    plan,        \* history: all pages of the result set of the last query
    log,         \* history: I/O calls issued by the current table's sync
    wmAtStart,   \* history: watermark row of the table when its sync began
    \* one call of upsert_batch / delete_by_keys, statement by statement
    tbl,         \* committed rows of the table of the call
    txn,         \* rows as the open transaction of self.conn sees them
    call,        \* arguments of the call: [op, primary_keys, records], and
                 \* in batch the loop body of sync the call belongs to, if any
    values,      \* upsert_batch: value tuples execute_values still has to send
    rowcount,    \* self.cursor.rowcount
    spc,         \* position in upsert_batch / delete_by_keys
    ret,         \* value returned by the call ("none" before it returns)
    before,      \* history: committed rows when the call began
    failed,      \* history: "no", or why the call failed: "rejected" (the
                 \* database refused the statement) or "io" (the call to the
                 \* database failed)
    \* calls of _build_query_with_watermark
    soql,        \* SyncConfig.soql_query, a string (sequence of characters)
    last_sync,   \* the watermark argument ({} is None)
    built        \* the queries returned so far: by the call on soql, then by
                 \* the call on that result

core == <<clock, source, exists, target, watermark, runs, env, pc,
          access_token, conn, aborted, event, idx, results, response, wm,
          start, query, stats, initial, snap, batch, cur, ended, plan, log, wmAtStart>>
store == <<tbl, txn, call, values, rowcount, spc, ret, before, failed>>
rewrite == <<soql, last_sync, built>>
vars == <<core, store, rewrite>>

persistent == <<source, exists, target, watermark>>
locals == <<wm, start, query, stats, initial, snap, batch>>

\* ------------------------------------------------------------- helpers
Rec(i, t, d) == [id |-> i, lm |-> t, del |-> d]
Row(r) == [id |-> r.id, lm |-> r.lm]
ZeroStats == [total_fetched |-> 0, total_upserted |-> 0,
              total_deleted |-> 0, batches_processed |-> 0]
NoQuery == [filter |-> {}, limit |-> 0]
Entry(op, ok, recs, ts) == [op |-> op, ok |-> ok, recs |-> recs, ts |-> ts]
Range(s) == {s[i] : i \in DOMAIN s}
Min(a, b) == IF a < b THEN a ELSE b

\* SyncConfig of a table: t1's query carries no LIMIT clause (0), t2's does.
SoqlLimit(t) == IF t = "t1" THEN 0 ELSE MaxRecs + 1
Config(t) == [sf_object |-> "Obj", soql_limit |-> SoqlLimit(t),
              pg_table |-> t, batch_size |-> BatchSize]

\* ------------------------------------------------- source API (server)
Matching(filter) == {r \in source : filter = {} \/ \E w \in filter : r.lm > w}

RECURSIVE SortById(_)
SortById(S) ==
    IF S = {} THEN <<>>
    ELSE LET m == CHOOSE r \in S : \A q \in S : r.id <= q.id
         IN  <<m>> \o SortById(S \ {m})

Take(s, n) == SubSeq(s, 1, Min(Len(s), n))

RECURSIVE Paginate(_, _)
Paginate(s, n) ==
    IF Len(s) <= n THEN <<s>>
    ELSE <<SubSeq(s, 1, n)>> \o Paginate(SubSeq(s, n + 1, Len(s)), n)

\* Pages the query endpoint serves for a query with the given filter and LIMIT,
\* when the server cuts the result into pages of p records.
ServerPages(filter, limit, p) ==
    Paginate(Take(SortById(Matching(filter)), limit), p)

\* ------------------------------------------------------- pure code parts
\* DataSyncer._build_query_with_watermark, on the structure of the query.
BuildQuery(soql_limit, watermarkv) == [filter |-> watermarkv, limit |-> soql_limit]

\* query_batch: LIMIT batch_size is appended when the query has no LIMIT.
EffectiveLimit(q, batch_size) == IF q.limit = 0 THEN batch_size ELSE q.limit

\* sync: the partition of a batch on the IsDeleted flag.
ActiveRecordsUnfiltered(b) == b
ActiveRecords(b) == SelectSeq(b, LAMBDA r : ~r.del)
DeletedRecords(b) == SelectSeq(b, LAMBDA r : r.del)

\* upsert_batch on success: INSERT .. ON CONFLICT (key) DO UPDATE.
UpsertRows(rows, recs) ==
    {w \in rows : \A r \in Range(recs) : r.id # w.id} \cup {Row(r) : r \in Range(recs)}

\* delete_by_keys on success: DELETE .. WHERE key = .. OR key = ..
DeleteRows(rows, recs) == {w \in rows : \A r \in Range(recs) : r.id # w.id}

\* The timestamp sync hands to update_watermark.
WatermarkValueAtCompletion(sync_start_time, now) == now
WatermarkValue(sync_start_time, now) == sync_start_time

\* The gate of the early return of sync for a missing table.
TableMissingIgnored(t) == FALSE
TableMissing(t) == t \notin exists

\* lambda_handler: success = all(r.get('success', False) for r in results)
OverallSuccessAny(rs) == \E i \in DOMAIN rs : rs[i].success
OverallSuccess(rs) == \A i \in DOMAIN rs : rs[i].success

\* sync: the watermark is written only when something was fetched.
ShouldUpdateWatermarkAlways(st) == TRUE
ShouldUpdateWatermark(st) == st.total_fetched > 0

\* upsert_batch returns cursor.rowcount, which execute_values leaves at the
\* row count of the last page of values it sent.
UpsertCount(recs) ==
    IF Len(recs) % ValuesPageSize = 0 THEN Min(Len(recs), ValuesPageSize)
    ELSE Len(recs) % ValuesPageSize

\* The dict sync (or the except clause of sync_multiple) returns for a table.
Result(kind, t, ok, st, prev, new, ic, fc) ==
    [kind |-> kind, table |-> t, success |-> ok, stats |-> st,
     previous_watermark |-> prev, new_watermark |-> new,
     initial_count |-> ic, final_count |-> fc]

NoResponse == [kind |-> "none", success |-> FALSE, results |-> <<>>]

\* lambda_handler goes on to the dispatch only when connect() and
\* authenticate() both answered True.
ProceedUnauthenticated(boot) == boot # "connect_failed"
Proceed(boot) == boot = "ok"

\* ------------------------------------------------------------ actions
\* lambda_handler calls sync for one table and sync_multiple for more.
Events == {<<"t0">>, <<"t1">>, <<"t2">>, <<"t0", "t1">>, <<"t1", "t2">>}

\* No batch of the loop of sync is being followed.
NoBatch == [active_records |-> <<>>, deleted_records |-> <<>>,
            step |-> 0, first_ok |-> FALSE]

NoCall == [op |-> "none", primary_keys |-> <<>>, records |-> <<>>,
           batch |-> NoBatch]

\* No accessor call is being followed statement by statement.
StoreOff ==
    /\ tbl = {} /\ txn = {} /\ call = NoCall /\ values = <<>>
    /\ rowcount = 0 /\ spc = "off" /\ ret = [kind |-> "none", count |-> 0]
    /\ before = {}
    /\ failed = "no"

\* No call of _build_query_with_watermark is being followed.
RewriteOff == soql = <<>> /\ last_sync = {} /\ built = <<>>

\* The state after cold start with the given content of the source object.
CoreInit(src) ==
    /\ clock = 1
    /\ source = src
    /\ exists = {"t1", "t2"}
    /\ target = [t \in Tables |-> {}]
    /\ watermark = [t \in Tables |-> {}]
    /\ runs = 0 /\ env = 0
    /\ pc = "idle" /\ access_token = FALSE
    /\ conn = "none" /\ aborted = FALSE
    /\ event = <<>> /\ idx = 0 /\ results = <<>> /\ response = NoResponse
    /\ wm = {} /\ start = 0 /\ query = NoQuery /\ stats = ZeroStats
    /\ initial = 0 /\ snap = <<>> /\ batch = <<>>
    /\ cur = "t1" /\ ended = "returned" /\ plan = <<>> /\ log = <<>>
    /\ wmAtStart = {}

Init ==
    /\ \E n \in 0..MaxRecs : \E d \in 0..n :
          CoreInit({Rec(i, 0, i > n - d) : i \in 1..n})
    /\ StoreOff
    /\ RewriteOff

Cost(out) == IF out = "ok" THEN 0 ELSE 1

\* The source object is modified inside the sync window, after the query was
\* issued: record i is created, updated or soft-deleted.
SourceWrite(i, d) ==
    /\ pc = "next"
    /\ env < MaxEnv
    /\ env' = env + 1
    /\ source' = {r \in source : r.id # i} \cup {Rec(i, clock, d)}
    /\ UNCHANGED <<store, rewrite>>
    /\ UNCHANGED <<clock, exists, target, watermark, runs, pc,
                   access_token, conn, aborted, event, idx, results, response, locals, cur, ended, plan, log,
                   wmAtStart>>

\* The connection of the PostgresAccessor that lambda_handler creates, when the
\* handler reaches the dispatch or returns before it: connect() failed, or
\* authenticate() failed and the handler called disconnect().
Connection(boot) ==
    CASE boot = "connect_failed" -> "none"
      [] boot = "auth_failed" -> "closed"
      [] OTHER -> "open"

\* lambda_handler up to the dispatch: connect, authenticate, build the configs.
Invoke(ev, boot) ==
    /\ pc = "idle"
    /\ runs < MaxRuns
    /\ env + Cost(boot) <= MaxEnv
    /\ runs' = runs + 1
    /\ env' = env + Cost(boot)
    /\ event' = ev
    /\ results' = <<>>
    /\ access_token' = (boot = "ok")
    /\ conn' = Connection(boot)
    /\ aborted' = FALSE
    /\ IF Proceed(boot)
       THEN /\ pc' = "sync"
            /\ idx' = 1
            /\ response' = NoResponse
       ELSE /\ pc' = "idle"
            /\ idx' = 0
            /\ response' = [kind |-> boot, success |-> FALSE, results |-> <<>>]
    /\ wm' = {} /\ start' = 0 /\ query' = NoQuery /\ stats' = ZeroStats
    /\ initial' = 0 /\ snap' = <<>> /\ batch' = <<>>
    /\ cur' = ev[1] /\ ended' = "returned" /\ plan' = <<>> /\ log' = <<>>
    /\ wmAtStart' = {}
    /\ UNCHANGED <<store, rewrite>>
    /\ UNCHANGED <<clock, persistent>>

\* sync returns its result: lambda_handler / sync_multiple collect it.
EndTable(res) ==
    /\ results' = Append(results, res)
    /\ idx' = idx + 1
    /\ pc' = IF idx < Len(event) THEN "sync" ELSE "respond"
    /\ ended' = "returned"
    /\ UNCHANGED response

\* sync raises: sync_multiple catches it per table, while the single-table
\* dispatch of lambda_handler lets it reach the handler's own except clause.
Raise(t) ==
    IF Len(event) = 1
    THEN /\ response' = [kind |-> "exception", success |-> FALSE, results |-> <<>>]
         /\ pc' = "idle"
         /\ ended' = "raised"
         /\ UNCHANGED <<results, idx>>
    ELSE /\ results' = Append(results, Result("exception", t, FALSE, ZeroStats,
                                              {}, {}, 0, 0))
         /\ idx' = idx + 1
         /\ pc' = IF idx < Len(event) THEN "sync" ELSE "respond"
         /\ ended' = "raised"
         /\ UNCHANGED response

\* sync begins by binding self.stats to a new dict of zero counters.
ResetStatsKept(st) == st
ResetStats(st) == ZeroStats

\* get_record_count: the number of rows, or 0 when its statement is refused.
RecordCount(rows, refused) == IF refused THEN 0 ELSE Cardinality(rows)

\* sync, from the reset of the stats to the initial record count.  table_exists
\* answers False when its statement fails; get_watermark answers None then.
\* Neither rolls back: the transaction stays aborted, and the database refuses
\* every statement of the connection until a rollback.
SyncBegin(te, rd) ==
    /\ pc = "sync"
    /\ LET t == event[idx]
           refused == aborted \/ te = "fail"
       IN
       /\ cur' = t
       /\ wmAtStart' = watermark[t]
       /\ stats' = ResetStats(stats)
       /\ plan' = <<>>
       /\ IF TableMissing(t) \/ refused
          THEN /\ rd = "ok"
               /\ (TableMissing(t) \/ aborted) => te = "ok"
               /\ env + Cost(te) <= MaxEnv
               /\ env' = env + Cost(te)
               /\ aborted' = refused
               /\ log' = <<Entry("table_exists", ~refused, {}, {})>>
               /\ EndTable(Result("no_table", t, FALSE, ZeroStats, {}, {}, 0, 0))
               /\ UNCHANGED <<clock, wm, start, query, initial>>
          ELSE /\ env + Cost(rd) <= MaxEnv
               /\ env' = env + Cost(rd)
               /\ aborted' = (rd = "fail")
               /\ wm' = IF rd = "ok" THEN watermark[t] ELSE {}
               /\ start' = clock
               /\ clock' = clock + 1
               /\ query' = BuildQuery(Config(t).soql_limit, wm')
               /\ initial' = RecordCount(target[t], aborted')
               /\ log' = <<Entry("table_exists", TRUE, {}, {}),
                           Entry("get_watermark", rd = "ok", {}, wm')>>
               /\ pc' = "first"
               /\ ended' = "no"
               /\ UNCHANGED <<results, idx, response>>
    /\ UNCHANGED <<store, rewrite>>
    /\ UNCHANGED <<persistent, runs, access_token, conn, event, snap, batch>>

\* The body of a 200 answer of the query endpoint for the first of the given
\* pages: the records, and the done flag unless the answer is bare (an answer
\* with neither the flag nor a nextRecordsUrl).
Answer(pages, shape) ==
    IF shape = "bare" THEN [records |-> Head(pages)]
    ELSE [records |-> Head(pages), done |-> Len(pages) = 1]

\* The log entry of a request that was answered with status 200; the entry of
\* a bare answer is marked.
Request(op, shape, records, t) ==
    IF shape = "bare"
    THEN [op |-> op, ok |-> TRUE, recs |-> Range(records), ts |-> {t}, bare |-> TRUE]
    ELSE Entry(op, TRUE, Range(records), {t})

\* query_batch: result.get('done', True), the condition that ends the loop.
DoneAtFirstAnswer(result) == TRUE
Done(result) == IF "done" \in DOMAIN result THEN result.done ELSE TRUE

\* query_batch: the answer to the request of nextRecordsUrl replaces result,
\* so the next request is for the page after it.
NextResultStale(pages) == pages
NextResult(pages) == Tail(pages)

\* query_batch after an answer: records that are not empty are yielded, and
\* the body of the loop of sync runs before query_batch goes on; rest are the
\* pages the server still holds.
YieldNothing(records, rest) == IF rest = <<>> THEN "final" ELSE "next"
Yield(records, rest) ==
    IF records # <<>> THEN "apply" ELSE IF rest = <<>> THEN "final" ELSE "next"

\* query_batch up to its first yield (or its end).  Without a token it calls
\* authenticate() first and ends without a request when that fails.
FirstPage(au, out, p) ==
    /\ pc = "first"
    /\ access_token => au = "ok"
    /\ au # "ok" => out = "ok"
    /\ env + Cost(au) + Cost(out) <= MaxEnv
    /\ env' = env + Cost(au) + Cost(out)
    /\ (au # "ok" \/ out = "fail") => p = ServerPageSize
    /\ access_token' = (au = "ok")
    /\ LET pages == ServerPages(query.filter,
                                EffectiveLimit(query, Config(cur).batch_size), p)
           log0 == IF access_token THEN log
                   ELSE Append(log, Entry("authenticate", au = "ok", {}, {clock}))
       IN IF au # "ok"
          THEN /\ plan' = <<>>
               /\ snap' = <<>>
               /\ batch' = <<>>
               /\ pc' = "final"
               /\ log' = log0
          ELSE IF out \in {"ok", "bare"}
          THEN LET result == Answer(pages, out) IN
               /\ plan' = pages
               /\ snap' = IF Done(result) THEN <<>> ELSE NextResult(pages)
               /\ batch' = result.records
               /\ pc' = Yield(result.records, snap')
               /\ log' = Append(log0, Request("query", out, result.records, clock))
          ELSE /\ plan' = pages
               /\ snap' = <<>>
               /\ batch' = <<>>
               /\ pc' = "final"
               /\ log' = Append(log0, Entry("query", FALSE, {}, {clock}))
    /\ UNCHANGED <<store, rewrite>>
    /\ UNCHANGED <<clock, persistent, runs, conn, aborted, event, idx, results,
                   response, wm, start, query, stats, initial, cur, ended,
                   wmAtStart>>

\* The body of the for loop of sync for the batch just yielded.
ApplyBatch(uo, do) ==
    /\ pc = "apply"
    /\ LET t == cur
           active == ActiveRecords(batch)
           deleted == DeletedRecords(batch)
           callU == active # <<>>
           callD == deleted # <<>> /\ uo # "raise"
           \* the first statement on an aborted transaction is refused; the
           \* rollback of the except clause ends the aborted transaction
           okU == uo = "ok" /\ ~aborted
           okD == do = "ok" /\ (callU \/ ~aborted)
           rows1 == IF callU /\ okU THEN UpsertRows(target[t], active)
                    ELSE target[t]
           rows2 == IF callD /\ okD THEN DeleteRows(rows1, deleted)
                    ELSE rows1
           st == [stats EXCEPT
                    !.batches_processed = @ + 1,
                    !.total_fetched = @ + Len(batch),
                    !.total_upserted = @ + (IF callU /\ okU
                                            THEN UpsertCount(active) ELSE 0),
                    !.total_deleted = @ + Cardinality(rows1) - Cardinality(rows2)]
           logU == IF callU
                   THEN Append(log, Entry("upsert", okU, Range(active), {}))
                   ELSE log
           logD == IF callD
                   THEN Append(logU, Entry("delete", okD, Range(deleted), {}))
                   ELSE logU
       IN
       /\ ~callU => uo = "ok"
       /\ ~callD => do = "ok"
       /\ env + Cost(uo) + Cost(do) <= MaxEnv
       /\ env' = env + Cost(uo) + Cost(do)
       /\ aborted' = FALSE
       /\ target' = [target EXCEPT ![t] = rows2]
       /\ stats' = st
       /\ log' = logD
       /\ batch' = <<>>
       /\ IF uo = "raise" \/ do = "raise"
          THEN Raise(t)
          ELSE /\ pc' = "next"
               /\ UNCHANGED <<results, idx, response, ended>>
    /\ UNCHANGED <<store, rewrite>>
    /\ UNCHANGED <<clock, source, exists, watermark, runs, access_token, conn,
                   event, wm, start, query, initial, snap, cur, plan, wmAtStart>>

\* query_batch when a page request fails (status other than 200, or an
\* exception): the loop is left, the pages the server still holds are never
\* requested.
AfterFailureSkipPage(pages) == Tail(pages)
AfterFailure(pages) == <<>>

\* query_batch resumed after a yield: the pagination loop.
NextPage(out) ==
    /\ pc = "next"
    /\ IF snap = <<>>
       THEN /\ out = "ok"
            /\ pc' = "final"
            /\ UNCHANGED <<env, snap, batch, log>>
       ELSE /\ env + Cost(out) <= MaxEnv
            /\ env' = env + Cost(out)
            /\ IF out \in {"ok", "bare"}
               THEN LET result == Answer(snap, out) IN
                    /\ snap' = IF Done(result) THEN <<>> ELSE NextResult(snap)
                    /\ batch' = result.records
                    /\ pc' = Yield(result.records, snap')
                    /\ log' = Append(log, Request("page", out, result.records, clock))
               ELSE /\ snap' = AfterFailure(snap)
                    /\ batch' = <<>>
                    /\ pc' = IF snap' = <<>> THEN "final" ELSE "next"
                    /\ log' = Append(log, Entry("page", FALSE, {}, {clock}))
    /\ UNCHANGED <<store, rewrite>>
    /\ UNCHANGED <<clock, persistent, runs, access_token, conn, aborted, event,
                   idx, results, response, wm, start, query, stats, initial,
                   cur, ended, plan, wmAtStart>>

\* update_watermark's except clause: the rollback leaves the row of the table
\* as it was before the statement.
RolledBack(row) == row

\* update_watermark's statement: the row of the table holds the given time,
\* in a TIMESTAMP column, whether or not the table had a row.
UpsertedTimeOfDay(row, sync_time) == {sync_time % 2}
Upserted(row, sync_time) == {sync_time}

\* The watermark table after update_watermark: the statement names the row
\* by its key table_name, the rows of the other tables stay.
WatermarkTableEveryRow(rows, table_name, row) ==
    [x \in DOMAIN rows |-> IF x = table_name \/ rows[x] # {} THEN row ELSE rows[x]]
WatermarkTable(rows, table_name, row) == [rows EXCEPT ![table_name] = row]

\* sync after the loop: watermark update, final count, result.
Finalize(wo) ==
    /\ pc = "final"
    /\ LET t == cur
           doWrite == ShouldUpdateWatermark(stats)
           value == WatermarkValue(start, clock)
           okW == wo = "ok" /\ ~aborted
       IN
       /\ ~doWrite => wo = "ok"
       /\ env + Cost(wo) <= MaxEnv
       /\ env' = env + Cost(wo)
       /\ aborted' = (aborted /\ ~doWrite)
       /\ watermark' = IF doWrite
                       THEN WatermarkTable(watermark, t,
                                           IF okW THEN Upserted(watermark[t], value)
                                           ELSE RolledBack(watermark[t]))
                       ELSE watermark
       /\ log' = IF doWrite
                 THEN Append(log, Entry("update_watermark", okW, {}, {value}))
                 ELSE log
       /\ IF wo = "raise"
          THEN Raise(t)
          ELSE EndTable(Result("synced", t, TRUE, stats, wm, {start}, initial,
                               RecordCount(target[t], aborted')))
    /\ UNCHANGED <<store, rewrite>>
    /\ UNCHANGED <<clock, source, exists, target, runs, access_token, conn, event,
                   locals, cur, plan, wmAtStart>>

\* disconnect: cursor.close() and then conn.close(); when closing the cursor
\* raises, the connection is not closed.
Disconnected(dc) == IF dc = "ok" THEN "closed" ELSE "open"

\* lambda_handler after the dispatch: disconnect and build the response.  An
\* exception of disconnect reaches the except clause of the handler.
Respond(dc) ==
    /\ pc = "respond"
    /\ env + Cost(dc) <= MaxEnv
    /\ env' = env + Cost(dc)
    /\ pc' = "idle"
    /\ conn' = Disconnected(dc)
    /\ aborted' = FALSE
    /\ response' = IF dc = "ok"
                   THEN [kind |-> "results", success |-> OverallSuccess(results),
                         results |-> results]
                   ELSE [kind |-> "exception", success |-> FALSE, results |-> <<>>]
    /\ UNCHANGED <<store, rewrite>>
    /\ UNCHANGED <<clock, persistent, runs, access_token, event, idx,
                   results, locals, cur, ended, plan, log, wmAtStart>>

Next ==
    \/ \E i \in RecIds, d \in BOOLEAN : SourceWrite(i, d)
    \/ \E ev \in Events, boot \in {"ok", "connect_failed", "auth_failed"} :
          Invoke(ev, boot)
    \/ \E te \in {"ok", "fail"}, rd \in {"ok", "fail"} : SyncBegin(te, rd)
    \/ \E au \in {"ok", "fail"}, out \in {"ok", "fail", "bare"},
          p \in {1, ServerPageSize} : FirstPage(au, out, p)
    \/ \E uo \in Outcomes, do \in Outcomes : ApplyBatch(uo, do)
    \/ \E out \in {"ok", "fail", "bare"} : NextPage(out)
    \/ \E wo \in Outcomes : Finalize(wo)
    \/ \E dc \in {"ok", "raise"} : Respond(dc)

Spec == Init /\ [][Next]_vars

\* ------------------------------------- upsert_batch / delete_by_keys
\* One call of PostgresAccessor.upsert_batch or delete_by_keys, followed
\* statement by statement.  A value of a record is None, a string or a
\* nested structure; a column of a row holds None (NULL) or a string.
None == [t |-> "none"]
Str(v) == [t |-> "str", v |-> v]
Dict(d) == [t |-> "dict", d |-> d]

\* field_mapping in the order of the dict: <<path of the sf_field, pg column>>.
FieldMapping == << <<<<"Id">>, "id">>,
                   <<<<"Account", "Name">>, "acct">>,
                   <<<<"Name">>, "name">>,
                   <<<<"Account", "Owner", "Name">>, "owner">> >>
Columns == {FieldMapping[i][2] : i \in DOMAIN FieldMapping}
PrimaryKeyChoices == {<<"id">>, <<"id", "acct">>}

\* dict.get(key): None when the key is absent.
Get(d, k) == IF k \in DOMAIN d THEN d[k] ELSE None

\* What value.get(part) does on a value that is not a dict: it raises.
AttributeError == [t |-> "raises"]

\* value = value.get(part) if isinstance(value, dict) else None
StepUnguarded(value, part) ==
    IF value.t = "dict" THEN Get(value.d, part) ELSE AttributeError
Step(value, part) == IF value.t = "dict" THEN Get(value.d, part) ELSE None

\* The loop over parts[1:].
RECURSIVE Walk(_, _)
Walk(value, parts) ==
    IF parts = <<>> THEN value
    ELSE Walk(Step(value, Head(parts)), Tail(parts))

\* The value of an sf_field of a record: a dotted path starts from
\* record.get(parts[0], {}), a plain field is record.get(sf_field).
Resolve(record, path) ==
    IF Len(path) > 1
    THEN Walk(IF path[1] \in DOMAIN record THEN record[path[1]] ELSE Dict(<<>>),
              Tail(path))
    ELSE Get(record, path[1])

\* The path mapped to a column: the first item of field_mapping with it.
FieldOf(col) ==
    LET I == {i \in DOMAIN FieldMapping : FieldMapping[i][2] = col}
    IN  IF I = {} THEN <<>>
        ELSE FieldMapping[CHOOSE i \in I : \A j \in I : i <= j][1]

\* upsert_batch: the tuple of values built for a record, by column.
RowOf(record) == [c \in Columns |-> Resolve(record, FieldOf(c))]

KeyOf(row, pk) == [i \in DOMAIN pk |-> row[pk[i]]]

\* update_columns: the mapped columns that are not primary keys.
UpdateColumnsNone(pk) == {}
UpdateColumns(pk) == {c \in Columns : \A i \in DOMAIN pk : pk[i] # c}

\* PostgreSQL rejects the INSERT .. ON CONFLICT DO UPDATE statement when a
\* key column of a row is NULL or when two rows of the statement have the
\* same key ("command cannot affect row a second time").
StatementRejected(page, pk) ==
    \/ \E i \in DOMAIN page : \E k \in DOMAIN pk : page[i][pk[k]] = None
    \/ \E i, j \in DOMAIN page : i < j /\ KeyOf(page[i], pk) = KeyOf(page[j], pk)

\* The rows after INSERT .. VALUES page ON CONFLICT (pk) DO UPDATE SET
\* col = EXCLUDED.col for the update columns.
UpsertStatement(rows, page, pk) ==
    LET incoming(w) == {i \in DOMAIN page : KeyOf(page[i], pk) = KeyOf(w, pk)}
        updated(w) == LET n == page[CHOOSE i \in incoming(w) : TRUE]
                      IN  [c \in Columns |->
                              IF c \in UpdateColumns(pk) THEN n[c] ELSE w[c]]
    IN  {IF incoming(w) = {} THEN w ELSE updated(w) : w \in rows}
        \cup {page[i] : i \in {j \in DOMAIN page :
                                 \A w \in rows : KeyOf(w, pk) # KeyOf(page[j], pk)}}

\* delete_by_keys: the conditions of a record, one per primary key whose
\* value is not None, as a set of <<column, value>>.
Conditions(record, pk) ==
    {<<pk[i], Resolve(record, FieldOf(pk[i]))>> :
        i \in {j \in DOMAIN pk : /\ FieldOf(pk[j]) # <<>>
                                  /\ Resolve(record, FieldOf(pk[j])) # None}}

\* delete_conditions: the conditions of the records that have any.
DeleteConditions(records, pk) ==
    SelectSeq([i \in DOMAIN records |-> Conditions(records[i], pk)],
              LAMBDA c : c # {})

\* The rows after DELETE .. WHERE (c AND c) OR (c AND c) ..
DeleteStatement(rows, conds) ==
    {w \in rows : ~\E i \in DOMAIN conds : \A c \in conds[i] : w[c[1]] = c[2]}

\* What the call returns: a count, or nothing when an exception leaves it.
NoReturn == [kind |-> "none", count |-> 0]
Returned(n) == [kind |-> "count", count |-> n]
Raised == [kind |-> "raised", count |-> 0]

\* The count the except clause returns.
CountOnFailureRowcount(rc) == rc
CountOnFailure(rc) == 0

\* Records of a batch: every combination of a present, null or absent key
\* value, two records that differ in the non-key column only, and records
\* whose Account is a string, a structure without Name, or a structure whose
\* Owner is null.
SampleRecords ==
    {[Id |-> i, Account |-> a, Name |-> Str("a")] :
        i \in {Str("a"), Str("b"), None},
        a \in {None, Dict([Name |-> Str("a")])}}
    \cup {[Id |-> Str("a"), Account |-> Dict([Name |-> Str("a")]), Name |-> Str("b")],
          [Id |-> Str("c"), Account |-> Dict([Name |-> Str("a")]), Name |-> Str("a")],
          [Name |-> Str("a")],
          [Id |-> Str("a"), Account |-> Str("s"), Name |-> Str("a")],
          [Id |-> Str("a"), Account |-> Dict([Owner |-> Dict([Name |-> Str("o")])]),
           Name |-> Str("a")],
          [Id |-> Str("a"), Account |-> Dict([Name |-> Str("a"), Owner |-> None]),
           Name |-> Str("a")]}

RECURSIVE Batches(_)
Batches(n) ==
    IF n = 0 THEN {<<>>}
    ELSE LET B == Batches(n - 1)
         IN  B \cup {Append(b, r) : b \in {c \in B : Len(c) = n - 1},
                                    r \in SampleRecords}

\* The body of the loop of sync for a batch that has active and deleted
\* records: the accessor calls in the order sync makes them.
LoopBodyDeleteFirst == <<"delete", "upsert">>
LoopBody == <<"upsert", "delete">>

\* The records sync passes to the call: the active or the deleted subset.
SubsetOf(b, op) ==
    IF op = "upsert" THEN b.active_records ELSE b.deleted_records

\* Batches of the loop of sync, as their active and deleted subsets: records
\* with one key and different values, with another key, with a null Account.
LoopRecords ==
    {[Id |-> Str("a"), Account |-> Dict([Name |-> Str("a")]), Name |-> Str("a")],
     [Id |-> Str("a"), Account |-> Dict([Name |-> Str("a")]), Name |-> Str("b")],
     [Id |-> Str("b"), Account |-> Dict([Name |-> Str("a")]), Name |-> Str("a")],
     [Id |-> Str("a"), Account |-> None, Name |-> Str("a")]}

RECURSIVE SeqsOf(_, _)
SeqsOf(S, n) ==
    IF n = 0 THEN {<<>>}
    ELSE LET B == SeqsOf(S, n - 1)
         IN  B \cup {Append(b, r) : b \in {c \in B : Len(c) = n - 1}, r \in S}

LoopBatches ==
    {[active_records |-> a, deleted_records |-> d, step |-> 1, first_ok |-> FALSE] :
        a \in SeqsOf(LoopRecords, MaxBatchLen - 1) \ {<<>>},
        d \in SeqsOf(LoopRecords, 1) \ {<<>>}}

TableRow(i, a, n) ==
    [id |-> Str(i), acct |-> Str(a), name |-> Str(n), owner |-> None]
CandidateRows == {TableRow("a", "a", "a"), TableRow("b", "a", "b"),
                  TableRow("a", "b", "a")}

\* The content of a table whose primary key is pk: no two rows with one key.
ValidTable(rows, pk) ==
    \A w, x \in rows : KeyOf(w, pk) = KeyOf(x, pk) => w = x

InitStore ==
    /\ CoreInit({})
    /\ \E pk \in PrimaryKeyChoices :
       \E rows \in {T \in SUBSET CandidateRows : ValidTable(T, pk)} :
          /\ tbl = rows /\ txn = rows /\ before = rows
          /\ \/ \E op \in {"upsert", "delete"}, recs \in Batches(MaxBatchLen) :
                   call = [op |-> op, primary_keys |-> pk, records |-> recs,
                           batch |-> NoBatch]
             \/ \E b \in LoopBatches :
                   call = [op |-> LoopBody[1], primary_keys |-> pk,
                           records |-> SubsetOf(b, LoopBody[1]), batch |-> b]
    /\ values = <<>> /\ rowcount = 0 /\ spc = "call" /\ ret = NoReturn
    /\ failed = "no"
    /\ RewriteOff

\* upsert_batch up to the call of execute_values.
UpsertStart ==
    /\ spc = "call" /\ call.op = "upsert"
    /\ IF call.records = <<>>
       THEN /\ ret' = Returned(0)
            /\ spc' = "done"
            /\ UNCHANGED values
       ELSE /\ values' = [i \in DOMAIN call.records |-> RowOf(call.records[i])]
            /\ spc' = "exec"
            /\ UNCHANGED ret
    /\ UNCHANGED <<core, rewrite, tbl, txn, call, rowcount, before, failed>>

\* execute_values sends the next page of tuples as one statement.
ExecuteValues(out) ==
    /\ spc = "exec" /\ call.op = "upsert"
    /\ LET page == Take(values, ValuesPageSize)
           rest == SubSeq(values, Len(page) + 1, Len(values))
           rejected == StatementRejected(page, call.primary_keys)
       IN IF out = "ok" /\ ~rejected
          THEN /\ txn' = UpsertStatement(txn, page, call.primary_keys)
               /\ rowcount' = Len(page)
               /\ values' = rest
               /\ spc' = IF rest = <<>> THEN "commit" ELSE "exec"
               /\ UNCHANGED failed
          ELSE /\ failed' = IF out = "ok" THEN "rejected" ELSE "io"
               /\ spc' = "rollback"
               /\ UNCHANGED <<txn, rowcount, values>>
    /\ UNCHANGED <<core, rewrite, tbl, call, ret, before>>

\* delete_by_keys up to the execution of its statement.
DeleteStart ==
    /\ spc = "call" /\ call.op = "delete"
    /\ LET conds == DeleteConditions(call.records, call.primary_keys)
       IN IF conds = <<>>
          THEN /\ ret' = Returned(0)
               /\ spc' = "done"
               /\ UNCHANGED values
          ELSE /\ values' = conds
               /\ spc' = "exec"
               /\ UNCHANGED ret
    /\ UNCHANGED <<core, rewrite, tbl, txn, call, rowcount, before, failed>>

\* self.cursor.execute(delete_sql)
ExecuteDelete(out) ==
    /\ spc = "exec" /\ call.op = "delete"
    /\ IF out = "ok"
       THEN /\ txn' = DeleteStatement(txn, values)
            /\ rowcount' = Cardinality(txn) - Cardinality(txn')
            /\ spc' = "commit"
            /\ UNCHANGED failed
       ELSE /\ failed' = "io"
            /\ spc' = "rollback"
            /\ UNCHANGED <<txn, rowcount>>
    /\ UNCHANGED <<core, rewrite, tbl, call, values, ret, before>>

\* self.conn.commit(), then the return of cursor.rowcount.
Commit(out) ==
    /\ spc = "commit"
    /\ IF out = "ok"
       THEN /\ tbl' = txn
            /\ ret' = Returned(rowcount)
            /\ spc' = "done"
            /\ UNCHANGED failed
       ELSE /\ failed' = "io"
            /\ spc' = "rollback"
            /\ UNCHANGED <<tbl, ret>>
    /\ UNCHANGED <<core, rewrite, txn, call, values, rowcount, before>>

\* The except clause: self.conn.rollback(), return 0.  When the rollback
\* raises (the connection is gone) the server discards the transaction and
\* the exception leaves the call.
Rollback(out) ==
    /\ spc = "rollback"
    /\ txn' = tbl
    /\ ret' = IF out = "ok" THEN Returned(CountOnFailure(rowcount)) ELSE Raised
    /\ spc' = "done"
    /\ UNCHANGED <<core, rewrite, tbl, call, values, rowcount, before, failed>>

\* sync goes from the first call of the loop body to the second, unless the
\* first one raised.
SecondCall ==
    /\ spc = "done" /\ call.batch.step = 1
    /\ ret.kind = "count"
    /\ call' = [call EXCEPT !.op = LoopBody[2],
                            !.records = SubsetOf(call.batch, LoopBody[2]),
                            !.batch.step = 2,
                            !.batch.first_ok = (failed = "no")]
    /\ spc' = "call"
    /\ ret' = NoReturn
    /\ values' = <<>>
    /\ before' = tbl
    /\ failed' = "no"
    /\ UNCHANGED <<core, rewrite, tbl, txn, rowcount>>

NextStore ==
    \/ SecondCall
    \/ UpsertStart
    \/ \E out \in {"ok", "fail"} : ExecuteValues(out)
    \/ DeleteStart
    \/ \E out \in {"ok", "fail"} : ExecuteDelete(out)
    \/ \E out \in {"ok", "fail"} : Commit(out)
    \/ \E out \in {"ok", "raise"} : Rollback(out)

SpecStore == InitStore /\ [][NextStore]_vars

\* ------------------------------------- _build_query_with_watermark
\* A string is the sequence of its characters; the operators below are the
\* Python string operations the rewrite uses.
LowerCase == <<"a", "b", "c", "d", "e", "f", "g", "h", "i", "j", "k", "l", "m",
               "n", "o", "p", "q", "r", "s", "t", "u", "v", "w", "x", "y", "z">>
UpperCase == <<"A", "B", "C", "D", "E", "F", "G", "H", "I", "J", "K", "L", "M",
               "N", "O", "P", "Q", "R", "S", "T", "U", "V", "W", "X", "Y", "Z">>

\* str.upper()
Upper(s) ==
    [i \in DOMAIN s |->
        IF \E k \in DOMAIN LowerCase : LowerCase[k] = s[i]
        THEN UpperCase[CHOOSE k \in DOMAIN LowerCase : LowerCase[k] = s[i]]
        ELSE s[i]]

StartsAt(s, sub, i) ==
    /\ i + Len(sub) - 1 <= Len(s)
    /\ SubSeq(s, i, i + Len(sub) - 1) = sub

\* str.find(sub) + 1: the position of the first occurrence, 0 when none.
Find(s, sub) ==
    LET I == {i \in 1..Len(s) : StartsAt(s, sub, i)}
    IN  IF I = {} THEN 0 ELSE CHOOSE i \in I : \A j \in I : i <= j

\* sub in s
Contains(s, sub) == Find(s, sub) # 0

\* str.split(sep)
RECURSIVE Split(_, _)
Split(s, sep) ==
    LET i == Find(s, sep)
    IN  IF i = 0 THEN <<s>>
        ELSE <<SubSeq(s, 1, i - 1)>> \o Split(SubSeq(s, i + Len(sep), Len(s)), sep)

\* sep.join(parts)
RECURSIVE Join(_, _)
Join(parts, sep) ==
    IF parts = <<>> THEN <<>>
    ELSE IF Len(parts) = 1 THEN parts[1]
    ELSE parts[1] \o sep \o Join(Tail(parts), sep)

\* str.rstrip(chars)
RECURSIVE RStripOf(_, _)
RStripOf(s, cs) ==
    IF s # <<>> /\ s[Len(s)] \in cs THEN RStripOf(SubSeq(s, 1, Len(s) - 1), cs)
    ELSE s

\* str.rstrip()
RStrip(s) == RStripOf(s, {" "})

sFROM == <<"F", "R", "O", "M">>
sWHERE == <<"W", "H", "E", "R", "E">>
sLIMIT == <<"L", "I", "M", "I", "T">>
sIsDeleted == <<"I", "s", "D", "e", "l", "e", "t", "e", "d">>
sLastModifiedDate == <<"L", "a", "s", "t", "M", "o", "d", "i", "f", "i", "e", "d", "D", "a", "t", "e">>

\* watermark.strftime('%Y-%m-%dT%H:%M:%SZ') of the watermark of tick w.
Strftime(w) == <<"T", <<"0", "1", "2", "3", "4", "5", "6", "7", "8", "9">>[w + 1]>>

\* The two blocks that put a field into the SELECT clause when its name does
\* not occur in the query.
EnsureField(base_query, field) ==
    IF ~Contains(base_query, field) /\ Contains(Upper(base_query), sFROM)
    THEN LET parts == Split(base_query, sFROM)
             select_part == RStripOf(RStrip(parts[1]), {","})
             from_part == sFROM \o Join(Tail(parts), <<>>)
         IN  select_part \o <<",", " ">> \o field \o <<" ">> \o from_part
    ELSE base_query

\* The block that adds the watermark condition.
AddWatermark(base_query, watermark_str) ==
    LET cond == <<"L", "a", "s", "t", "M", "o", "d", "i", "f", "i", "e", "d", "D", "a", "t", "e", " ", ">", " ">> \o watermark_str
    IN  IF Contains(Upper(base_query), sWHERE)
        THEN RStrip(base_query) \o <<" ", "A", "N", "D", " ">> \o cond
        ELSE IF Contains(Upper(base_query), sLIMIT)
        THEN LET parts == Split(base_query, sLIMIT)
             IN  RStrip(parts[1]) \o <<" ", "W", "H", "E", "R", "E", " ">> \o cond \o <<" ", "L", "I", "M", "I", "T", " ">>
                 \o Join(Tail(parts), sLIMIT)
        ELSE RStrip(base_query) \o <<" ", "W", "H", "E", "R", "E", " ">> \o cond

\* DataSyncer._build_query_with_watermark on the text of the query.
BuildQueryWithWatermark(base_query, watermarkv) ==
    LET q == EnsureField(EnsureField(base_query, sIsDeleted), sLastModifiedDate)
    IN  IF watermarkv = {} THEN q
        ELSE AddWatermark(q, Strftime(CHOOSE w \in watermarkv : TRUE))

\* Base queries: SELECT <fields> FROM Obj [WHERE ..] [LIMIT ..], with the
\* keywords in upper or lower case (SOQL reads both).
FieldLists ==
    {<<"I", "d">>,
     <<"I", "d", ",", " ", "I", "s", "D", "e", "l", "e", "t", "e", "d">>,
     <<"I", "d", ",", " ", "L", "a", "s", "t", "M", "o", "d", "i", "f", "i", "e", "d", "D", "a", "t", "e">>,
     <<"I", "d", ",", " ", "I", "s", "D", "e", "l", "e", "t", "e", "d", ",", " ", "L", "a", "s", "t", "M", "o", "d", "i", "f", "i", "e", "d", "D", "a", "t", "e">>,
     <<"I", "d", ",", " ", "i", "s", "d", "e", "l", "e", "t", "e", "d">>}
FromKeywords == {<<"F", "R", "O", "M">>, <<"f", "r", "o", "m">>}
WhereClauses ==
    {<<>>,
     <<" ", "W", "H", "E", "R", "E", " ", "N", "a", "m", "e", " ", "=", " ", "'", "x", "'">>,
     <<" ", "W", "H", "E", "R", "E", " ", "I", "s", "D", "e", "l", "e", "t", "e", "d", " ", "=", " ", "f", "a", "l", "s", "e">>,
     <<" ", "w", "h", "e", "r", "e", " ", "N", "a", "m", "e", " ", "=", " ", "'", "x", "'">>}
LimitClauses == {<<>>, <<" ", "L", "I", "M", "I", "T", " ", "5">>, <<" ", "l", "i", "m", "i", "t", " ", "5">>}

BaseQueries ==
    {<<"S", "E", "L", "E", "C", "T", " ">> \o f \o <<" ">> \o k \o <<" ", "O", "b", "j">> \o w \o l :
        f \in FieldLists, k \in FromKeywords, w \in WhereClauses,
        l \in LimitClauses}

InitRewrite ==
    /\ CoreInit({})
    /\ StoreOff
    /\ soql \in BaseQueries
    /\ last_sync \in {{}, {1}}
    /\ built = <<>>

\* sync builds the query of the run from the configured query.
Rewrite ==
    /\ built = <<>>
    /\ built' = <<BuildQueryWithWatermark(soql, last_sync)>>
    /\ UNCHANGED <<core, store, soql, last_sync>>

\* The rewrite applied to a query it has returned, with the same watermark.
RewriteAgain ==
    /\ Len(built) = 1
    /\ built' = Append(built, BuildQueryWithWatermark(built[1], last_sync))
    /\ UNCHANGED <<core, store, soql, last_sync>>

NextRewrite == Rewrite \/ RewriteAgain

SpecRewrite == InitRewrite /\ [][NextRewrite]_vars

\* ------------------------------------------------------------ claims
Last(s) == s[Len(s)]
Entries(ops) == {i \in DOMAIN log : log[i].op \in ops}
Requests == Entries({"query", "page"})
Applies == Entries({"upsert", "delete"})
WatermarkWrites == Entries({"update_watermark"})
RecsOf(I) == UNION {log[i].recs : i \in I}
AllOk == \A i \in DOMAIN log : log[i].ok
\* The latest state of source record r is in the rows of a target table.
Applied(rows, r) ==
    IF r.del THEN \A w \in rows : w.id # r.id ELSE Row(r) \in rows

\* C1: every watermark value handed to update_watermark is the timestamp
\* captured at the start of the run, which is earlier than the time of every
\* extraction request of the run; a stored row written by the run holds it.
C1_WatermarkIsPreExtractionTime ==
    \A i \in WatermarkWrites :
        /\ log[i].ts = {start}
        /\ \A j \in Requests : \A b \in log[j].ts : start < b
        /\ log[i].ok => watermark[cur] = {start}

C1_Witness ==
    /\ ended = "returned"
    /\ Len(plan) >= 2
    /\ \E i \in WatermarkWrites : log[i].ok

\* C2: no source record is skipped: for a table whose watermark is W, every
\* source record whose latest state is not applied to the table is stamped
\* later than W, so the next run of the table fetches it.  Stated for the
\* behaviours in which no call fails and the source is not modified.
C2_NoRecordSkipped ==
    env = 0 =>
        \A t \in exists : \A w \in watermark[t] : \A r \in source :
            Applied(target[t], r) \/ r.lm > w

\* C3 (as stated): when a sync has returned, the table's watermark is the
\* pre-extraction timestamp if and only if at least one record was fetched,
\* and with zero records fetched the row is as it was.
C3_WatermarkSetIffFetched ==
    (ended = "returned" /\ Requests # {}) =>
        /\ watermark[cur] = {start} <=> stats.total_fetched > 0
        /\ stats.total_fetched = 0 => watermark[cur] = wmAtStart

\* C3 (amended): a sync that returns has called update_watermark exactly when
\* at least one record was fetched; the row holds the pre-extraction timestamp
\* when that call succeeded and is as it was before the run otherwise (zero
\* records fetched, failed write, or a sync ended by an exception).
C3_WatermarkSetIffFetchedAndWritten ==
    (ended # "no" /\ Requests # {}) =>
        /\ ended = "returned" =>
              (WatermarkWrites # {} <=> stats.total_fetched > 0)
        /\ watermark[cur] = IF \E i \in WatermarkWrites : log[i].ok
                            THEN {start} ELSE wmAtStart

C3_Witness ==
    /\ ended = "returned"
    /\ Requests # {}
    /\ stats.total_fetched = 0
    /\ wmAtStart # {}
    /\ watermark[cur] = wmAtStart

\* C4: if the upsert or the delete of a batch failed during a table's sync,
\* the watermark of the table after the run is its value before the run.
C4_FailedApplyKeepsWatermark ==
    (ended # "no" /\ \E i \in Applies : ~log[i].ok) =>
        watermark[cur] = wmAtStart

\* C5: in a sync whose extraction consists of 3 batches and that fails on
\* batch 2 (its page request, its upsert or its delete), batch 1 is persisted
\* in the target, batch 3 is never requested, and the watermark is unchanged.
FailedOnBatch(k) ==
    \/ \E i \in Requests :
          /\ ~log[i].ok
          /\ Cardinality({j \in Requests : j <= i}) = k
    \/ \E i \in Applies : ~log[i].ok /\ log[i].recs \subseteq Range(plan[k])

C5_FailureOnBatchTwoOfThree ==
    (ended # "no" /\ Len(plan) = 3 /\ FailedOnBatch(2)) =>
        /\ \A r \in Range(plan[1]) : Applied(target[cur], r)
        /\ Cardinality(Requests) < 3
        /\ watermark[cur] = wmAtStart

C5_Witness ==
    /\ ended # "no" /\ Len(plan) = 3 /\ FailedOnBatch(2)
    /\ \A r \in Range(plan[1]) : Applied(target[cur], r)
    /\ Cardinality(Requests) < 3

\* C6: the sync of a missing table returns a failed result with an error and
\* issues no watermark read or write, no source query, no upsert, no delete.
C6_MissingTableNoIO ==
    (log # <<>> /\ cur \notin exists) =>
        /\ ended = "returned"
        /\ Last(results).table = cur
        /\ Last(results).kind = "no_table"
        /\ ~Last(results).success
        /\ \A i \in DOMAIN log : log[i].op = "table_exists"
        /\ watermark[cur] = {} /\ target[cur] = {}

C6_Witness ==
    /\ log # <<>> /\ cur \notin exists
    /\ pc = "sync"

\* C7: in a sync without prior watermark that returned with every call
\* succeeding, the records passed to upsert_batch are exactly the fetched
\* records that are not deleted, those passed to delete_by_keys exactly the
\* fetched records that are deleted, and neither is called with no record.
C7_PartitionByDeletionFlag ==
    (ended = "returned" /\ wmAtStart = {} /\ AllOk) =>
        /\ RecsOf(Entries({"upsert"})) = {r \in RecsOf(Requests) : ~r.del}
        /\ RecsOf(Entries({"delete"})) = {r \in RecsOf(Requests) : r.del}
        /\ \A i \in Applies : log[i].recs # {}
        /\ Cardinality(Entries({"upsert"})) =
              Cardinality({i \in Requests : \E r \in log[i].recs : ~r.del})
        /\ Cardinality(Entries({"delete"})) =
              Cardinality({i \in Requests : \E r \in log[i].recs : r.del})

C7_Witness ==
    /\ ended = "returned" /\ wmAtStart = {} /\ AllOk
    /\ \E i \in Requests : \E r, q \in log[i].recs : r.del /\ ~q.del
    /\ \E i \in Requests : log[i].recs # {} /\ \A r \in log[i].recs : ~r.del

\* C8: the response of an invocation that reached the dispatch carries one
\* result per table of the event, in the order of the event.
C8_OneResultPerTable ==
    (pc = "idle" /\ response.kind \in {"results", "exception"}) =>
        /\ Len(response.results) = Len(event)
        /\ \A i \in DOMAIN event : response.results[i].table = event[i]

\* In a run of several tables a table that failed does not stop the later ones.
C8_LaterTablesSynced ==
    /\ pc = "idle" /\ response.kind = "results"
    /\ Len(response.results) = 2
    /\ ~response.results[1].success
    /\ response.results[2].success

\* C9: the success flag of the response is true exactly when every per-table
\* result of the response has success = true.
C9_OverallSuccessIsConjunction ==
    response.kind = "results" =>
        (response.success <=> ~\E r \in Range(response.results) : ~r.success)

C9_Witness ==
    /\ response.kind = "results"
    /\ \E r, q \in Range(response.results) : r.success /\ ~q.success

\* C10: a sync in which a page request failed in the middle of pagination
\* does not report success.
C10_PageFailureReported ==
    (ended = "returned" /\ \E i \in Entries({"page"}) : ~log[i].ok) =>
        ~Last(results).success

\* C11: an invocation that connected to the database and whose authentication
\* against the source failed (it holds no token) has ended: it has issued no
\* query request, reports no table as synced successfully, and its response
\* is the authentication failure.
AuthFailed == runs > 0 /\ ~access_token /\ response.kind # "connect_failed"

NewFailedApply ==
    \E i \in DOMAIN log' :
        /\ i > Len(log)
        /\ log'[i].op \in {"upsert", "delete"}
        /\ ~log'[i].ok

C12_FailedBatchNotCounted ==
    [][(pc = "apply" /\ NewFailedApply) => stats' = stats]_vars

\* C13: a sync in which the upsert or the delete of a batch failed is not
\* aborted: it ends by returning, every page of the result set is requested
\* (unless a page request itself failed), and for every batch received the
\* upsert of its active subset and the delete of its deleted subset are both
\* attempted, also when the upsert of that batch failed.
Attempted(i, op, sub) ==
    sub # {} => \E j \in Entries({op}) : j > i /\ log[j].recs = sub

C13_FailedApplyDoesNotAbort ==
    (ended # "no" /\ \E i \in Applies : ~log[i].ok) =>
        /\ ended = "returned"
        /\ (\A i \in Requests : log[i].ok) => Cardinality(Requests) = Len(plan)
        /\ \A i \in Requests :
              /\ Attempted(i, "upsert", {r \in log[i].recs : ~r.del})
              /\ Attempted(i, "delete", {r \in log[i].recs : r.del})

\* C14: when a call of upsert_batch has ended and any statement, the commit
\* or the rollback failed, the rows of the table are those before the call
\* and the count reported is 0; a count above 0 is reported only when nothing
\* failed and, for every record of the batch, the row of the last record with
\* its key is committed.
LastWithKey(i) ==
    LET rws == [j \in DOMAIN call.records |-> RowOf(call.records[j])]
        same == {j \in DOMAIN rws :
                   KeyOf(rws[j], call.primary_keys) = KeyOf(rws[i], call.primary_keys)}
    IN  rws[CHOOSE j \in same : \A k \in same : k <= j]

C14_UpsertAllOrNothing ==
    (spc = "done" /\ call.op = "upsert") =>
        /\ failed # "no" => tbl = before /\ ret.count = 0
        /\ ret.count > 0 =>
              /\ failed = "no"
              /\ \A i \in DOMAIN call.records : LastWithKey(i) \in tbl

\* A later page of values fails after an earlier page was executed.
C14_Witness ==
    /\ spc = "done" /\ call.op = "upsert"
    /\ failed # "no" /\ rowcount > 0 /\ values # <<>>
    /\ tbl = before /\ ret = Returned(0)

\* C15: after a successful upsert_batch of records with pairwise distinct
\* keys, the table holds for every record exactly one row with the record's
\* key, every other mapped column of that row has the record's mapped value,
\* and the rows whose key is that of no record are those of before the call.
RecordRows == [i \in DOMAIN call.records |-> RowOf(call.records[i])]
Key(w) == KeyOf(w, call.primary_keys)
DistinctKeys ==
    \A i, j \in DOMAIN RecordRows :
        i # j => Key(RecordRows[i]) # Key(RecordRows[j])
UpsertSucceeded ==
    /\ spc = "done" /\ call.op = "upsert" /\ call.records # <<>>
    /\ ret.kind = "count" /\ failed = "no"

C15_UpsertedRowsCarryRecordValues ==
    (UpsertSucceeded /\ DistinctKeys) =>
        /\ \A i \in DOMAIN call.records :
              LET hit == {w \in tbl : Key(w) = Key(RecordRows[i])}
              IN  /\ Cardinality(hit) = 1
                  /\ \A w \in hit : \A k \in DOMAIN FieldMapping :
                        w[FieldMapping[k][2]] =
                            Resolve(call.records[i], FieldMapping[k][1])
        /\ {w \in tbl : \A i \in DOMAIN RecordRows : Key(w) # Key(RecordRows[i])}
           = {w \in before : \A i \in DOMAIN RecordRows : Key(w) # Key(RecordRows[i])}

\* Three records in two pages: one overwrites a row that differs in a non-key
\* column, the others are inserted, and an unrelated row stays.
C15_Witness ==
    /\ UpsertSucceeded /\ DistinctKeys
    /\ Len(call.records) > ValuesPageSize
    /\ \E w \in before : \E i \in DOMAIN RecordRows :
          Key(w) = Key(RecordRows[i]) /\ w # RecordRows[i]
    /\ \E w \in before : w \in tbl

\* C16: upsert_batch of two records that have the same key and differ in a
\* non-key column, with no call to the database failing, leaves exactly one
\* row with that key, and it holds the values of the second record.
C16_LastDuplicateWins ==
    (/\ spc = "done" /\ call.op = "upsert" /\ failed # "io"
     /\ Len(call.records) = 2
     /\ Key(RecordRows[1]) = Key(RecordRows[2])
     /\ RecordRows[1] # RecordRows[2]
     /\ \A k \in DOMAIN call.primary_keys : Key(RecordRows[1])[k] # None)
    => {w \in tbl : Key(w) = Key(RecordRows[2])} = {RecordRows[2]}

\* C17: after a delete_by_keys call in which nothing failed, the rows deleted
\* are exactly the rows whose key is the key of a record all of whose key
\* values resolve, and the count reported is their number: a record with a
\* key value that is missing or null deletes nothing and counts for nothing.
Resolvable(i) ==
    \A k \in DOMAIN call.primary_keys : Key(RecordRows[i])[k] # None

C17_UnresolvedKeyDeletesNothing ==
    (spc = "done" /\ call.op = "delete" /\ failed = "no") =>
        /\ tbl = {w \in before : ~\E i \in DOMAIN RecordRows :
                                     Resolvable(i) /\ Key(w) = Key(RecordRows[i])}
        /\ ret.count = Cardinality(before) - Cardinality(tbl)

\* The structure of a query as the source API reads it: keywords are words in
\* either case, the projection is the comma-separated list between SELECT and
\* FROM, the filter is the text between WHERE and LIMIT (or the end), the limit
\* is the text after LIMIT.  Field names are compared without regard to case.
RECURSIVE LStrip(_)
LStrip(s) == IF s # <<>> /\ s[1] = " " THEN LStrip(Tail(s)) ELSE s
Strip(s) == LStrip(RStrip(s))

KeywordAt(q, kw, i) ==
    /\ StartsAt(Upper(q), kw, i)
    /\ i = 1 \/ q[i - 1] = " "
    /\ i + Len(kw) > Len(q) \/ q[i + Len(kw)] = " "

FirstKeyword(q, kw) ==
    LET I == {i \in 1..Len(q) : KeywordAt(q, kw, i)}
    IN  IF I = {} THEN 0 ELSE CHOOSE i \in I : \A j \in I : i <= j

ProjectionFields(q) ==
    LET f == FirstKeyword(q, sFROM)
        list == SubSeq(q, Len(<<"S", "E", "L", "E", "C", "T", " ">>) + 1, IF f = 0 THEN Len(q) ELSE f - 1)
        parts == Split(list, <<",">>)
    IN  [i \in DOMAIN parts |-> Upper(Strip(parts[i]))]

FieldCount(q, field) ==
    Cardinality({i \in DOMAIN ProjectionFields(q) :
                    ProjectionFields(q)[i] = Upper(field)})

FilterText(q) ==
    LET w == FirstKeyword(q, sWHERE)
        l == FirstKeyword(q, sLIMIT)
    IN  IF w = 0 THEN <<>>
        ELSE Strip(SubSeq(q, w + Len(sWHERE),
                          IF l > w THEN l - 1 ELSE Len(q)))

FilterConditions(q) ==
    IF FilterText(q) = <<>> THEN {}
    ELSE Range(Split(FilterText(q), <<" ", "A", "N", "D", " ">>))

LimitText(q) ==
    LET l == FirstKeyword(q, sLIMIT)
    IN  IF l = 0 THEN <<>> ELSE Strip(SubSeq(q, l + Len(sLIMIT), Len(q)))

Structure(q) ==
    [fields |-> ProjectionFields(q), conds |-> FilterConditions(q),
     limit |-> LimitText(q)]

\* The base query is written the way the rewrite writes: keywords in upper
\* case, field names in the case of the API.
Conventional(q) ==
    /\ \A kw \in {sFROM, sWHERE, sLIMIT} : \A i \in 1..Len(q) :
          KeywordAt(q, kw, i) => StartsAt(q, kw, i)
    /\ \A f \in {sIsDeleted, sLastModifiedDate} : \A i \in 1..Len(q) :
          StartsAt(Upper(q), Upper(f), i) => StartsAt(q, f, i)

\* C18: the rewrite of an already rewritten query, with the same watermark,
\* has the projection fields, the filter conditions and the limit of the
\* first rewrite.  Stated for base queries in the conventional spelling.
C18_RewriteIdempotent ==
    (Len(built) = 2 /\ Conventional(soql)) =>
        Structure(built[2]) = Structure(built[1])

\* C19: with a watermark, the rewritten query has the limit of the base query
\* and, when the base query has a filter, the filter of the base query followed
\* by AND and the watermark condition; otherwise its filter is the watermark
\* condition alone, in a WHERE clause that precedes the LIMIT clause if there
\* is one and ends the query if there is none.  Stated for base queries in
\* the conventional spelling.
WatermarkCondition == <<"L", "a", "s", "t", "M", "o", "d", "i", "f", "i", "e", "d", "D", "a", "t", "e", " ", ">", " ">> \o Strftime(CHOOSE w \in last_sync : TRUE)

C19_WatermarkConditionPlaced ==
    (Len(built) >= 1 /\ last_sync # {} /\ Conventional(soql)) =>
        LET q == built[1] IN
        /\ LimitText(q) = LimitText(soql)
        /\ FirstKeyword(soql, sLIMIT) = 0 <=> FirstKeyword(q, sLIMIT) = 0
        /\ FirstKeyword(q, sLIMIT) # 0 =>
              FirstKeyword(q, sWHERE) < FirstKeyword(q, sLIMIT)
        /\ IF FirstKeyword(soql, sWHERE) # 0
           THEN FilterText(q) = FilterText(soql) \o <<" ", "A", "N", "D", " ">> \o WatermarkCondition
           ELSE FilterText(q) = WatermarkCondition

\* C20: the projection of the rewritten query holds the soft-delete flag field
\* once and the last-modified field once.  Stated for base queries in the
\* conventional spelling.
C20_FlagAndTimestampOnce ==
    (Len(built) >= 1 /\ Conventional(soql)) =>
        /\ FieldCount(built[1], sIsDeleted) = 1
        /\ FieldCount(built[1], sLastModifiedDate) = 1

\* C21: in every step, a table that has a watermark row keeps one, and the
\* time of the row after the step is not earlier than the time before it.
C21_WatermarkMonotonic ==
    [][\A t \in Tables : \A w \in watermark[t] :
          /\ watermark'[t] # {}
          /\ \A v \in watermark'[t] : v >= w]_vars

\* A second sync of a table has replaced the watermark row the first one wrote.
C21_Witness ==
    /\ ended = "returned"
    /\ wmAtStart # {}
    /\ watermark[cur] # wmAtStart

\* C22: when the sync of a table has returned and its write of the watermark
\* failed, the result of the table reports the failure (it is not a success
\* that names the start time as the new watermark), and the records of every
\* upsert and delete that succeeded during the run are in the target in the
\* state they were applied.
C22_WatermarkWriteFailureReported ==
    (ended = "returned" /\ \E k \in WatermarkWrites : ~log[k].ok) =>
        /\ ~Last(results).success \/ Last(results).new_watermark # {start}
        /\ \A k \in Applies : log[k].ok =>
              \A r \in log[k].recs : Applied(target[cur], r)

\* C23: when the sync of a table has returned, its read of the watermark
\* failed and nothing else failed in the environment, the query carried no
\* lower bound, every record of the result set of the query was extracted,
\* and every extracted record is in the target in the state it was extracted.
C23_ReadFailureMeansFullResync ==
    (/\ ended = "returned"
     /\ \E k \in Entries({"get_watermark"}) : ~log[k].ok
     /\ env = 1) =>
        /\ query.filter = {}
        /\ RecsOf(Requests) = UNION {Range(plan[j]) : j \in DOMAIN plan}
        /\ \A r \in RecsOf(Requests) : Applied(target[cur], r)

\* C24: when an invocation has ended, the connection it opened is closed.
C24_ConnectionReleased ==
    (pc = "idle" /\ runs > 0) => conn # "open"

\* The records the source holds for the query that sync hands to query_batch.
ResultSet ==
    LET m == SortById(Matching(query.filter))
    IN  Range(IF query.limit = 0 THEN m ELSE Take(m, query.limit))

\* C25: when query_batch has ended, none of its requests failed and the
\* source was not modified since the run began, the batches it yielded hold
\* every record the source holds for the query, no record is in two batches,
\* and the records of an earlier batch precede those of a later one in the
\* order of the source.
C25_EveryRecordDeliveredOnce ==
    (/\ pc = "final"
     /\ Requests # {}
     /\ \A k \in Requests : log[k].ok
     /\ \A r \in source : r.lm <= start) =>
        /\ RecsOf(Requests) = ResultSet
        /\ \A i, j \in Requests : i < j =>
              \A r \in log[i].recs : \A q \in log[j].recs : r.id < q.id

\* C26: a failed request of query_batch is the last request of the run, it
\* yields no batch, and no upsert or delete follows it; what was requested
\* and applied before it stays as it was.
C26_NothingAfterFailedRequest ==
    \A k \in Requests : ~log[k].ok =>
        /\ log[k].recs = {}
        /\ \A j \in Requests \cup Applies : j <= k
        /\ pc \notin {"apply", "next"}
        /\ batch = <<>> /\ snap = <<>>

\* A page request failed after a batch was applied, and the server held more
\* pages than were requested.
C26_Witness ==
    /\ \E k \in Entries({"page"}) : ~log[k].ok
    /\ \E k \in Applies : log[k].ok
    /\ Len(plan) > Cardinality(Requests)

\* C27: every page request of query_batch leaves the server with fewer pages
\* to deliver than before it, query_batch ends without a request once the
\* server has none left, and after an answer that carries neither the done
\* flag nor a nextRecordsUrl no page is requested.
C27_QueryBatchTerminates ==
    [][/\ (pc = "next" /\ Len(log') > Len(log)) => Len(snap') < Len(snap)
       /\ (pc = "next" /\ snap = <<>> /\ pc' # pc) => (pc' = "final" /\ log' = log)
       /\ \A k \in {i \in DOMAIN log' : "bare" \in DOMAIN log'[i]} :
             /\ snap' = <<>>
             /\ \A j \in DOMAIN log' : log'[j].op \in {"query", "page"} => j <= k]_vars

\* query_batch has ended after an answer to a page request that carried
\* neither the flag nor the handle, while the server held another page.
C27_Witness ==
    /\ pc = "final"
    /\ \E k \in Entries({"page"}) : "bare" \in DOMAIN log[k]
    /\ Len(plan) > Cardinality(Requests)

\* The request that delivered the batch an upsert or delete at position a of
\* the log belongs to: the last request before a.
RequestBefore(a) == CHOOSE k \in Requests : k < a /\ \A j \in Requests : j < a => j <= k

\* C28: the records of every upsert and delete are records of the batch the
\* last request before it delivered; when a request follows a request that
\* delivered a batch, the upsert and delete calls between the two cover that
\* batch; and sync holds a batch only while it applies it, namely the one the
\* last request delivered.
C28_StrictlyInterleaved ==
    /\ \A a \in Applies :
          /\ \E k \in Requests : k < a
          /\ log[a].recs \subseteq log[RequestBefore(a)].recs
    /\ \A k, j \in Requests :
          (k < j /\ \A i \in Requests : ~(k < i /\ i < j)) =>
              RecsOf({a \in Applies : k < a /\ a < j}) = log[k].recs
    /\ pc # "apply" => batch = <<>>
    /\ pc = "apply" =>
          /\ batch # <<>>
          /\ Range(batch) = log[Len(log)].recs
          /\ Len(log) \in Requests

\* A sync has requested two pages with records and applied both.
C28_Witness ==
    /\ pc = "final"
    /\ \E k, j \in Requests : k < j /\ log[k].recs # {} /\ log[j].recs # {}
    /\ Len(log) \in Applies

\* C29: the log of a sync holds at most one read of the watermark, and exactly
\* one once the sync has found its table; the read precedes every request,
\* upsert, delete and write of the watermark.  It holds at most one write of
\* the watermark, which is its last entry: by then query_batch has ended, the
\* requests have fetched every page of the result unless one of them failed
\* or was answered without the done flag, and every fetched record was passed
\* to upsert_batch or delete_by_keys.
C29_WatermarkReadOnceWrittenLast ==
    LET reads == Entries({"get_watermark"}) IN
    /\ Cardinality(reads) <= 1
    /\ (ended = "no" \/ Requests # {}) => Cardinality(reads) = 1
    /\ \A r \in reads : \A k \in Requests \cup Applies \cup WatermarkWrites : r < k
    /\ Cardinality(WatermarkWrites) <= 1
    /\ \A w \in WatermarkWrites :
          /\ w = Len(log)
          /\ snap = <<>> /\ batch = <<>> /\ pc \notin {"first", "apply", "next"}
          /\ (\A k \in Requests : log[k].ok /\ "bare" \notin DOMAIN log[k]) =>
                Cardinality(Requests) = Len(plan)
          /\ RecsOf(Applies) = RecsOf(Requests)

\* A sync that fetched two pages has written the watermark.
C29_Witness ==
    /\ ended = "returned"
    /\ WatermarkWrites # {}
    /\ Cardinality(Requests) >= 2
    /\ \A k \in Requests : log[k].ok

\* C30: without a watermark, the rewritten query has the filter of the base
\* query (none when the base query has none) and no condition on
\* LastModifiedDate that the base query does not have.
C30_NoWatermarkNoLowerBound ==
    (Len(built) >= 1 /\ last_sync = {}) =>
        /\ FilterText(built[1]) = FilterText(soql)
        /\ FirstKeyword(built[1], sWHERE) = 0 <=> FirstKeyword(soql, sWHERE) = 0

\* The value a path of up to three segments reaches in a record: the value
\* under the last segment when every segment before it names a nested
\* structure that has the next one, and null otherwise.
Under(value, part) ==
    IF value.t = "dict" /\ part \in DOMAIN value.d THEN value.d[part] ELSE None
Reached(record, path) ==
    LET top == IF path[1] \in DOMAIN record THEN record[path[1]] ELSE None
    IN  CASE Len(path) = 1 -> top
          [] Len(path) = 2 -> Under(top, path[2])
          [] Len(path) = 3 -> Under(Under(top, path[2]), path[3])

\* C31: the tuples upsert_batch hands to execute_values hold, for every
\* record and mapped column, the value the path of the column reaches in the
\* record, null when it reaches none; the conditions delete_by_keys builds
\* hold the values the paths of the key columns reach, one per key column
\* whose value is not null; and neither call has failed by then.
C31_DottedPathResolution ==
    /\ (spc = "exec" /\ call.op = "upsert" /\ Len(values) = Len(call.records)) =>
          /\ failed = "no"
          /\ \A i \in DOMAIN call.records : \A k \in DOMAIN FieldMapping :
                values[i][FieldMapping[k][2]] =
                    Reached(call.records[i], FieldMapping[k][1])
    /\ (spc = "exec" /\ call.op = "delete") =>
          /\ failed = "no"
          /\ values = SelectSeq(
                [i \in DOMAIN call.records |->
                    {<<call.primary_keys[j],
                       Reached(call.records[i], FieldOf(call.primary_keys[j]))>> :
                        j \in {n \in DOMAIN call.primary_keys :
                                 Reached(call.records[i],
                                         FieldOf(call.primary_keys[n])) # None}}],
                LAMBDA c : c # {})

\* upsert_batch has built the tuples of a batch with a record whose Account is
\* null, one whose Account is a string and one whose Account.Owner.Name is set.
C31_Witness ==
    /\ spc = "exec" /\ call.op = "upsert" /\ Len(values) = Len(call.records)
    /\ \E i \in DOMAIN call.records :
          /\ "Account" \in DOMAIN call.records[i]
          /\ call.records[i].Account = None
          /\ values[i].acct = None
    /\ \E i \in DOMAIN call.records :
          /\ "Account" \in DOMAIN call.records[i]
          /\ call.records[i].Account.t = "str"
          /\ values[i].acct = None /\ values[i].owner = None
    /\ \E i \in DOMAIN call.records : values[i].owner = Str("o")

\* C32: after a delete_by_keys call on a table with a key of two or more
\* columns, every row the call removed has, in every key column, the value of
\* one and the same record of the batch.
C32_DeleteByCompleteKey ==
    (spc = "done" /\ call.op = "delete" /\ Len(call.primary_keys) >= 2) =>
        \A w \in before \ tbl :
            \E i \in DOMAIN RecordRows : Key(w) = Key(RecordRows[i])

\* C33: the new watermark named in the result of a sync that synced its table
\* is the watermark row of the table when the sync returns.
C33_ReportedWatermarkIsPersisted ==
    (ended = "returned" /\ results # <<>> /\ Last(results).kind = "synced") =>
        Last(results).new_watermark = watermark[cur]

\* C34: with a watermark and a base query that has a LIMIT clause, the
\* watermark condition stands before the LIMIT clause of the rewritten query.
\* Stated for base queries in the conventional spelling.
C34_ConditionBeforeLimit ==
    (/\ Len(built) >= 1 /\ last_sync # {} /\ Conventional(soql)
     /\ FirstKeyword(soql, sLIMIT) # 0) =>
        LET q == built[1]
            c == Find(q, WatermarkCondition)
        IN  /\ c # 0
            /\ FirstKeyword(q, sLIMIT) # 0
            /\ c < FirstKeyword(q, sLIMIT)

\* C35: a step of the sync of a table leaves the rows and the watermark row
\* of every other table as they were.
C35_OtherTablesUntouched ==
    [][\A t \in Tables : t # cur' =>
          /\ target'[t] = target[t]
          /\ watermark'[t] = watermark[t]]_vars

\* The sync of a table has written rows and the watermark while another table
\* holds rows and a watermark of an earlier sync.
C35_Witness ==
    /\ ended = "returned"
    /\ \E k \in WatermarkWrites : log[k].ok
    /\ target[cur] # {}
    /\ \E t \in Tables : /\ t # cur
                         /\ target[t] # {}
                         /\ watermark[t] # {}
                         /\ watermark[t] # watermark[cur]

\* C36: when sync has applied a batch that has active and deleted records and
\* neither the upsert nor the delete failed, the table has no row with a key
\* that an active record and a deleted record of the batch share.
C36_DeleteAfterUpsert ==
    (/\ spc = "done" /\ call.batch.step = 2
     /\ call.batch.first_ok /\ failed = "no") =>
        \A i \in DOMAIN call.batch.active_records :
        \A j \in DOMAIN call.batch.deleted_records :
            LET ka == Key(RowOf(call.batch.active_records[i]))
                kd == Key(RowOf(call.batch.deleted_records[j]))
            IN  ka = kd => \A w \in tbl : Key(w) # ka

\* A batch whose active and deleted records share a key was applied: the row
\* with the key was in the table after the upsert, and the delete removed it.
C36_Witness ==
    /\ spc = "done" /\ call.batch.step = 2
    /\ call.batch.first_ok /\ failed = "no"
    /\ ret.count > 0
    /\ \E i \in DOMAIN call.batch.active_records :
       \E j \in DOMAIN call.batch.deleted_records :
          /\ Key(RowOf(call.batch.active_records[i]))
                = Key(RowOf(call.batch.deleted_records[j]))
          /\ \E w \in before :
                Key(w) = Key(RowOf(call.batch.active_records[i]))
          /\ \A w \in tbl :
                Key(w) # Key(RowOf(call.batch.active_records[i]))

\* The number of records in the log entries I of the sync that is logged.
RECURSIVE CountRecs(_)
CountRecs(I) ==
    IF I = {} THEN 0
    ELSE LET i == CHOOSE x \in I : TRUE
         IN  Cardinality(log[i].recs) + CountRecs(I \ {i})

\* C37: the counters in the result of a table's sync count that sync's own
\* batches, whatever was synced before it on the same DataSyncer: fetched is
\* the number of records its own requests returned, batches processed the
\* number of its requests that returned records, and upserted and deleted do
\* not exceed the records of its own upsert and delete calls that succeeded.
C37_CountersArePerTable ==
    (/\ pc \in {"sync", "respond", "idle"}
     /\ results # <<>>
     /\ Last(results).kind = "synced") =>
        LET st == Last(results).stats
        IN  /\ st.total_fetched = CountRecs(Requests)
            /\ st.batches_processed
                  = Cardinality({k \in Requests : log[k].recs # {}})
            /\ st.total_upserted
                  <= CountRecs({k \in Entries({"upsert"}) : log[k].ok})
            /\ st.total_deleted
                  <= CountRecs({k \in Entries({"delete"}) : log[k].ok})

\* The second table of a multi-table run returned its counters after a first
\* table that fetched and upserted records with the same DataSyncer.
C37_Witness ==
    /\ Len(results) = 2
    /\ results[1].kind = "synced" /\ results[2].kind = "synced"
    /\ results[1].stats.total_fetched > 0
    /\ results[1].stats.total_upserted > 0
    /\ results[2].stats.total_fetched > 0
    /\ results[2].stats.batches_processed > 0

====
